---- MODULE Spec2Model ----
(***************************************************************************)
(* Model of ksql/api.py: statement validation, the transport (_request),   *)
(* the buffered call (ksql), the response interpreter (_parse_ksql_res),   *)
(* the retry decorator (BaseAPI.retry) and the create / create-as calls    *)
(* of SimplifiedAPI.                                                       *)
(*                                                                         *)
(* Text is a sequence of characters (statement text) or a sequence of      *)
(* words (messages, status strings); concatenation is \o.  A call's        *)
(* outcome is Ret(v) for a normal return and Err(kind, msg) for a raise.   *)
(***************************************************************************)
EXTENDS Integers, Sequences, FiniteSets, TLC

\* ---------------------------------------------------------------- bounds
MaxLen == 3          \* longest statement text drawn as an input
MaxEntries == 2      \* longest buffered response (number of entries)
MaxN == 3            \* largest max_retries given to the generic decorator
MaxCalls == 2        \* guarded calls made one after another
MaxChunks == 4       \* longest streamed body (number of chunks)

\* ------------------------------------------------------------- outcomes
None == [py |-> "None"]
True == [py |-> "True"]
Pending == [tag |-> "pending"]
Ret(v) == [tag |-> "return", val |-> v]
Err(kind, msg) == [tag |-> "raise", kind |-> kind, msg |-> msg]
IsRet(o) == o.tag = "return"
IsErr(o) == o.tag = "raise"

\* --------------------------------------------------------- statement text
Alphabet == {"a", " ", ";"}
Texts == UNION {[1..k -> Alphabet] : k \in 0..MaxLen}

\* BaseAPI._validate_sql_string, mutated: always appends the terminator
validate_sql_string_always_append(sql_string) ==
    IF Len(sql_string) > 0
    THEN Ret(sql_string \o <<";">>)
    ELSE Err("InvalidQueryError", sql_string)

\* BaseAPI._validate_sql_string, mutated: an empty text is terminated too
validate_sql_string_accept_empty(sql_string) ==
    IF Len(sql_string) > 0 /\ sql_string[Len(sql_string)] = ";"
    THEN Ret(sql_string)
    ELSE Ret(sql_string \o <<";">>)

\* BaseAPI._validate_sql_string
validate_sql_string(sql_string) ==
    IF Len(sql_string) > 0
    THEN IF sql_string[Len(sql_string)] # ";"
         THEN Ret(sql_string \o <<";">>)
         ELSE Ret(sql_string)
    ELSE Err("InvalidQueryError", sql_string)

\* ------------------------------------------------------------- transport
Endpoints == {"ksql", "query"}
EmptyProps == <<>>

\* the body json.dumps serialises and the arguments of requests.request
HttpRequest(endpoint, sql_string, streams_properties) ==
    [endpoint |-> endpoint,
     data |-> [ksql |-> sql_string, streamsProperties |-> streams_properties],
     stream |-> (endpoint = "query")]

\* the answers of requests.request to the requests in sent
Answered(sent, net) == IF sent = <<>> THEN <<>> ELSE <<net>>

\* BaseAPI._request, mutated: the text is sent as given and validated after
request_sends_first(endpoint, sql_string, streams_properties, net) ==
    LET v == validate_sql_string(sql_string) IN
    [out |-> IF IsErr(v) THEN v ELSE net,
     sent |-> <<HttpRequest(endpoint, sql_string, streams_properties)>>]

\* BaseAPI._request: validation, then one requests.request whose outcome
\* (a response, or a raised Timeout) is net.  sent is what went on the wire.
request(endpoint, sql_string, streams_properties, net) ==
    LET v == validate_sql_string(sql_string) IN
    IF IsErr(v)
    THEN [out |-> v, sent |-> <<>>]
    ELSE [out |-> net,
          sent |-> <<HttpRequest(endpoint, v.val, streams_properties)>>]

\* ------------------------------------------------- response interpreter
\* A JSON object is a function from its keys to its values; an entry of a
\* buffered response is three objects deep and its leaves are strings.
Strs == {<<>>, <<"SUCCESS">>, <<"ERROR">>, <<"boom">>,
         <<"commandStatus", "boom">>}
Dicts(keys, vals) == UNION {[K -> vals] : K \in SUBSET keys}
Leaves == Dicts({"status", "message"}, Strs)
Sections == UNION {[K -> Leaves] :
                     K \in {{}, {"commandStatus"}, {"errorMessage"}}}
Entries == Dicts({"currentStatus", "error"}, Sections)
TailEntries == {[currentStatus |-> [commandStatus |->
                     [status |-> <<"SUCCESS">>, message |-> <<"boom">>]]],
                [error |-> [errorMessage |-> [message |-> <<"boom">>]]]}
Responses == {<<>>} \cup
             UNION {{<<e>> \o t : e \in Entries, t \in [1..k -> TailEntries]}
                     : k \in 0..(MaxEntries - 1)}

KeyOrder == <<"currentStatus", "error", "commandStatus", "errorMessage",
              "status", "message">>

\* str() of a JSON object of the given depth, as a sequence of words: the
\* braces, every key and every leaf string appear in it
RECURSIVE StrFrom(_, _, _)
StrFrom(d, depth, i) ==
    IF i > Len(KeyOrder) THEN <<>>
    ELSE LET k == KeyOrder[i] IN
         IF k \in DOMAIN d
         THEN <<"'", k, "'", ":">>
              \o (IF depth = 1
                  THEN <<"'">> \o d[k] \o <<"'">>
                  ELSE <<"{">> \o StrFrom(d[k], depth - 1, 1) \o <<"}">>)
              \o <<",">> \o StrFrom(d, depth, i + 1)
         ELSE StrFrom(d, depth, i + 1)
Str(entry) == <<"{">> \o StrFrom(entry, 3, 1) \o <<"}">>

\* Python's  word in text
In(word, text) == \E i \in 1..Len(text) : text[i] = word

KeyError(k) == Err("KeyError", <<k>>)
IndexError == Err("IndexError", <<"list index out of range">>)

\* r[0][k1][k2][k3], or the error of the first failing subscript
Lookup3(r, k1, k2, k3) ==
    IF k1 \notin DOMAIN r[1] THEN KeyError(k1)
    ELSE IF k2 \notin DOMAIN r[1][k1] THEN KeyError(k2)
    ELSE IF k3 \notin DOMAIN r[1][k1][k2] THEN KeyError(k3)
    ELSE Ret(r[1][k1][k2][k3])

\* BaseAPI._parse_ksql_res, mutated: the status is not looked at
parse_ksql_res_any_status(r) ==
    IF Len(r) = 0 THEN IndexError
    ELSE IF In("commandStatus", Str(r[1]))
    THEN LET status == Lookup3(r, "currentStatus", "commandStatus", "status")
         IN IF IsErr(status) THEN status ELSE Ret(True)
    ELSE LET m == Lookup3(r, "error", "errorMessage", "message") IN
         IF IsErr(m) THEN m
         ELSE Err("CreateError", <<"Message:">> \o m.val)

\* BaseAPI._parse_ksql_res, mutated: a third branch that reports success
\* when the expected fields are not there
parse_ksql_res_default_success(r) ==
    IF Len(r) = 0 THEN Ret(True)
    ELSE IF In("commandStatus", Str(r[1]))
    THEN LET status == Lookup3(r, "currentStatus", "commandStatus", "status")
         IN
         IF IsErr(status) THEN Ret(True)
         ELSE IF status.val = <<"SUCCESS">> THEN Ret(True)
         ELSE LET m == Lookup3(r, "currentStatus", "commandStatus",
                               "message") IN
              IF IsErr(m) THEN Ret(True) ELSE Err("CreateError", m.val)
    ELSE LET m == Lookup3(r, "error", "errorMessage", "message") IN
         IF IsErr(m) THEN Ret(True)
         ELSE Err("CreateError", <<"Message:">> \o m.val)

\* BaseAPI._parse_ksql_res
parse_ksql_res(r) ==
    IF Len(r) = 0 THEN IndexError
    ELSE IF In("commandStatus", Str(r[1]))
    THEN LET status == Lookup3(r, "currentStatus", "commandStatus", "status")
         IN
         IF IsErr(status) THEN status
         ELSE IF status.val = <<"SUCCESS">> THEN Ret(True)
         ELSE LET m == Lookup3(r, "currentStatus", "commandStatus",
                               "message") IN
              IF IsErr(m) THEN m ELSE Err("CreateError", m.val)
    ELSE LET m == Lookup3(r, "error", "errorMessage", "message") IN
         IF IsErr(m) THEN m
         ELSE Err("CreateError", <<"Message:">> \o m.val)

\* ------------------------------------------------------ buffered call
\* A response of requests.request: the status code and the raw body.  A
\* raw body either is the serialisation of a JSON document or is not JSON.
StatusCodes == {200, 400}
Body(doc) == [json |-> TRUE, doc |-> doc]
NotJson == [json |-> FALSE, doc |-> <<>>]
HttpResponse(status_code, content) ==
    [status_code |-> status_code, content |-> content]

\* Response.json()
json(content) ==
    IF content.json THEN Ret(content.doc)
    ELSE Err("JSONDecodeError", <<"Expecting value">>)

\* BaseAPI.ksql, mutated: the body is decoded whatever the status code
ksql_no_status_check(ksql_string, net) ==
    LET q == request("ksql", ksql_string, EmptyProps, net) IN
    IF IsErr(q.out) THEN q
    ELSE [out |-> json(q.out.val.content), sent |-> q.sent]

\* BaseAPI.ksql; net is the outcome of requests.request
ksql(ksql_string, net) ==
    LET q == request("ksql", ksql_string, EmptyProps, net) IN
    IF IsErr(q.out) THEN q
    ELSE IF q.out.val.status_code = 200
    THEN [out |-> json(q.out.val.content), sent |-> q.sent]
    ELSE [out |-> Err("ValueError",
                      <<"Status Code:", ToString(q.out.val.status_code),
                        "Message:", q.out.val.content>>),
          sent |-> q.sent]

\* ------------------------------------------------------- retry decorator
\* Python's isinstance for the kinds raised here: requests raises the
\* subclasses ReadTimeout and ConnectTimeout of Timeout.
Base(kind) ==
    IF kind \in {"ReadTimeout", "ConnectTimeout"} THEN "Timeout" ELSE kind
IsInstance(kind, exceptions) == kind \in exceptions \/ Base(kind) \in exceptions

\* except (exceptions), mutated: a bare except
Caught_everything(e, exceptions) == TRUE

\* except (exceptions) as e
Caught(e, exceptions) == IsInstance(e.kind, exceptions)

\* for counter in range(max_retries): is there a next iteration
in_range(counter, max_retries) == counter < max_retries

\* the body of the try statement, mutated: a returned value is dropped and
\* the loop goes on
inner_try_ignore_return(prev_excep, o, exceptions) ==
    IF IsErr(o) /\ ~Caught(o, exceptions)
    THEN [final_excep |-> None, done |-> TRUE, result |-> o]
    ELSE [final_excep |-> IF IsErr(o) THEN o ELSE None, done |-> FALSE,
          result |-> Pending]

\* the body of the try statement, mutated: the first caught error is kept
inner_try_keep_first(prev_excep, o, exceptions) ==
    IF IsRet(o) THEN [final_excep |-> None, done |-> TRUE, result |-> o]
    ELSE IF Caught(o, exceptions)
    THEN [final_excep |-> IF prev_excep # None THEN prev_excep ELSE o,
          done |-> FALSE, result |-> Pending]
    ELSE [final_excep |-> None, done |-> TRUE, result |-> o]

\* final_excep = None; try: value = function(); return value
\* except (exceptions) as e: final_excep = e
\* o is what this invocation of function did
inner_try(prev_excep, o, exceptions) ==
    IF IsRet(o) THEN [final_excep |-> None, done |-> TRUE, result |-> o]
    ELSE IF Caught(o, exceptions)
    THEN [final_excep |-> o, done |-> FALSE, result |-> Pending]
    ELSE [final_excep |-> None, done |-> TRUE, result |-> o]

\* if final_excep is not None: raise final_excep; else the function body
\* ends and Python returns None
after_loop(excep) == IF excep # None THEN excep ELSE Ret(None)

\* the parameters of BaseAPI.retry and their defaults
DefaultDelay == 1
DefaultMaxRetries == 5
Decoration(exceptions, delay, max_retries) ==
    [exceptions |-> exceptions, delay |-> delay, max_retries |-> max_retries]

\* ---------------------------------------------------------- SimplifiedAPI
\* SQLBuilder.build: the statement text built from the call's arguments
BuiltTexts == {<<>>, <<"a">>, <<"a", ";">>}

\* SimplifiedAPI._create, mutated: the statement is sent again on a timeout
create_resend(ksql_string, net) ==
    LET k == ksql(ksql_string, net) IN
    IF IsErr(k.out)
    THEN IF IsInstance(k.out.kind, {"Timeout"})
         THEN [out |-> k.out, sent |-> k.sent \o k.sent]
         ELSE k
    ELSE [out |-> parse_ksql_res(k.out.val), sent |-> k.sent]

\* SimplifiedAPI._create after the statement is built: r = self.ksql(...);
\* return self._parse_ksql_res(r, CreateError)
create(ksql_string, net) ==
    LET k == ksql(ksql_string, net) IN
    IF IsErr(k.out) THEN k
    ELSE [out |-> parse_ksql_res(k.out.val), sent |-> k.sent]

\* the function SimplifiedAPI._create_as that the decorator wraps
create_as(ksql_string, net) ==
    LET k == ksql(ksql_string, net) IN
    IF IsErr(k.out) THEN k
    ELSE [out |-> parse_ksql_res(k.out.val), sent |-> k.sent]

\* @BaseAPI.retry(exceptions=(Timeout, CreateError)) on _create_as
CreateAsDecoration ==
    Decoration({"Timeout", "CreateError"}, DefaultDelay, DefaultMaxRetries)

\* BaseAPI.__init__: url is fixed; max_retries, delay and timeout from kwargs
CfgRetries == {1, 3}
CfgDelays == {0, 2}
Client(max_retries, delay) ==
    [max_retries |-> max_retries, delay |-> delay, timeout |-> 5]

\* what requests.request can do with a buffered request
Timeout == Err("ReadTimeout", <<"Read timed out.">>)
CsEntry(status, message) ==
    [currentStatus |-> [commandStatus |->
        [status |-> status, message |-> message]]]
ErrEntry(message) == [error |-> [errorMessage |-> [message |-> message]]]
ClientDocs == {<<CsEntry(<<"SUCCESS">>, <<>>)>>,
               <<CsEntry(<<"ERROR">>, <<"boom">>)>>,
               <<ErrEntry(<<"boom">>)>>,
               <<ErrEntry(<<"commandStatus", "boom">>)>>,
               <<>>}
NetOutcomes ==
    {Timeout}
    \cup {Ret(HttpResponse(200, Body(d))) : d \in ClientDocs}
    \cup {Ret(HttpResponse(200, NotJson)), Ret(HttpResponse(400, NotJson)),
          Ret(HttpResponse(400, Body(<<ErrEntry(<<"boom">>)>>)))}

\* what an arbitrary guarded operation can do in one invocation
Values == {[py |-> "v1"], [py |-> "v2"]}
OpOutcomes ==
    {Ret(v) : v \in Values}
    \cup {Err(k, m) : k \in {"ReadTimeout", "CreateError", "ValueError"},
                      m \in {<<"m1">>, <<"m2">>}}
ExceptionSets == {{"Timeout"}, {"Timeout", "CreateError"}}
Delays == {0, 1}

\* ------------------------------------------------------ streaming query
\* A chunk of the body is a sequence of bytes, written as tokens.
Newline == <<"\n">>
Doc(k, v) == <<"{", k, ":", v, "}">>
HeadPart(k) == <<"{", k, ":">>
TailPart(v) == <<v, "}">>
BadBytes == <<"0xFF">>
Row(k, v) == [key |-> k, value |-> v]
Punctuation == {"{", "}", ":", "\n", "0xFF"}
ChunkSet == {Newline, Doc("a", "1"), Doc("a", "2"), HeadPart("a"),
             TailPart("1"), BadBytes}
Bodies == UNION {[1..n -> ChunkSet] : n \in 0..MaxChunks}

\* chunk.decode(encoding): bytes to text; a byte that is no character of the
\* encoding fails
decode(chunk) ==
    IF \E i \in 1..Len(chunk) : chunk[i] = "0xFF"
    THEN Err("UnicodeDecodeError", <<"invalid start byte">>)
    ELSE Ret(chunk)

\* json.loads(text): the text must be one complete document
json_loads(text) ==
    IF /\ Len(text) = 5
       /\ text[1] = "{" /\ text[3] = ":" /\ text[5] = "}"
       /\ text[2] \notin Punctuation /\ text[4] \notin Punctuation
    THEN Ret(Row(text[2], text[4]))
    ELSE Err("JSONDecodeError", <<"Expecting value">>)

\* the loop body of query, mutated: a newline chunk is parsed like any other
decode_step_no_skip(chunk) ==
    LET t == decode(chunk) IN
    IF IsErr(t) THEN [kind |-> "fail", error |-> t]
    ELSE LET d == json_loads(t.val) IN
         IF IsErr(d) THEN [kind |-> "fail", error |-> d]
         ELSE [kind |-> "row", row |-> d.val]

\* the loop body of query, mutated: a chunk that does not parse is skipped
decode_step_skip_bad(chunk) ==
    IF chunk # Newline
    THEN LET t == decode(chunk) IN
         IF IsErr(t) THEN [kind |-> "skip"]
         ELSE LET d == json_loads(t.val) IN
              IF IsErr(d) THEN [kind |-> "skip"]
              ELSE [kind |-> "row", row |-> d.val]
    ELSE [kind |-> "skip"]

\* the loop body of query for one chunk:
\* if chunk != b'\n': yield json.loads(chunk.decode(encoding))
decode_step(chunk) ==
    IF chunk # Newline
    THEN LET t == decode(chunk) IN
         IF IsErr(t) THEN [kind |-> "fail", error |-> t]
         ELSE LET d == json_loads(t.val) IN
              IF IsErr(d) THEN [kind |-> "fail", error |-> d]
              ELSE [kind |-> "row", row |-> d.val]
    ELSE [kind |-> "skip"]

\* calling query(...), mutated: the body starts to run at the call
query_call_eager(query_string) == "starting"

\* calling query(...): a generator function only makes the generator
query_call(query_string) == "created"

StreamResponse(status_code, chunks) ==
    [status_code |-> status_code, chunks |-> chunks]

\* r = self._request(...) in query, mutated: the status code is checked as
\* in ksql
stream_open_checks_status(o) ==
    IF IsErr(o)
    THEN [gen |-> "failed", error |-> o, conn |-> "none",
          resp |-> StreamResponse(0, <<>>)]
    ELSE IF o.val.status_code # 200
    THEN [gen |-> "failed",
          error |-> Err("ValueError",
                        <<"Status Code:", ToString(o.val.status_code)>>),
          conn |-> "open", resp |-> o.val]
    ELSE [gen |-> "running", error |-> Pending, conn |-> "open",
          resp |-> o.val]

\* r = self._request(endpoint='query', ...) in query: o is what _request
\* did; an error ends the generator, a response is iterated whatever its
\* status code
stream_open(o) ==
    IF IsErr(o)
    THEN [gen |-> "failed", error |-> o, conn |-> "none",
          resp |-> StreamResponse(0, <<>>)]
    ELSE [gen |-> "running", error |-> Pending, conn |-> "open",
          resp |-> o.val]

\* what requests.request can do with a streaming request
StreamNet ==
    {Err("ReadTimeout", <<"Read timed out.">>)}
    \cup {Ret(StreamResponse(c, b)) : c \in StatusCodes, b \in Bodies}

\* the statement texts the calls below are made with
CallTexts == {<<>>, <<"a">>, <<"a", ";">>}

\* ================================================================= state
VARIABLES
    sql_string,   \* text given to _validate_sql_string / _request
    endpoint,     \* endpoint given to _request
    validated,    \* outcome of _validate_sql_string(sql_string)
    requested,    \* outcome of _request(endpoint, sql_string)
    r,            \* decoded buffered response given to _parse_ksql_res
    parsed,       \* outcome of _parse_ksql_res(r)
    cfg,          \* the client: self.max_retries, self.delay, self.timeout
    calls,        \* API calls made so far on the client
    api,          \* the call in progress or last finished
    stmt,         \* the statement text the call built
    deco,         \* parameters of the decorator of the guarded function
    pc,           \* position inside inner_wrapper
    counter,      \* the loop variable of inner_wrapper
    final_excep,  \* final_excep of inner_wrapper
    trace,        \* outcomes of the invocations of function in this call
    sleeps,       \* time.sleep calls made in this call
    waited,       \* seconds slept in this call
    result,       \* outcome of the API call
    wire,         \* outbound requests made in this call
    answers,      \* what requests.request did with each of them
    prev,         \* outcome of the guarded call before this one
    gen,          \* state of the generator that query() returned
    conn,         \* the connection of the streaming response
    resp,         \* the streaming response: status code and body chunks
    nread,        \* chunks iter_content has handed to the loop so far
    rows,         \* rows yielded to the consumer so far
    asked         \* rows the consumer has asked for (calls of next)

textVars == <<sql_string, endpoint, validated, requested>>
parseVars == <<r, parsed>>
retryVars == <<deco, pc, counter, final_excep, trace, sleeps, waited>>
clientVars == <<cfg, calls, api, stmt, result>>
netVars == <<wire, answers>>
streamVars == <<gen, conn, resp, nread, rows, asked>>
restVars == <<streamVars, prev>>
vars == <<textVars, parseVars, retryVars, clientVars, netVars, restVars>>

NoText ==
    /\ sql_string = <<>> /\ endpoint = "ksql"
    /\ validated = Pending /\ requested = Pending
NoParse == r = <<>> /\ parsed = Pending
NoDeco == Decoration({}, 0, 0)
NoResp == [status_code |-> 0, chunks |-> <<>>]
NoStream ==
    /\ gen = "none" /\ conn = "none" /\ resp = NoResp
    /\ nread = 0 /\ rows = <<>> /\ asked = 0
NoCall ==
    /\ calls = 0 /\ api = "idle" /\ stmt = <<>> /\ deco = NoDeco
    /\ pc = "idle" /\ counter = 0 /\ final_excep = None /\ trace = <<>>
    /\ sleeps = 0 /\ waited = 0 /\ result = Pending

\* ------------------------------------------------- pure-function harness
InitText ==
    /\ sql_string \in Texts /\ endpoint \in Endpoints
    /\ validated = Pending /\ requested = Pending
    /\ NoParse /\ NoCall /\ cfg = Client(3, 0) /\ wire = <<>> /\ answers = <<>>
    /\ NoStream /\ prev = Pending

ValidateCall ==
    /\ validated = Pending
    /\ validated' = validate_sql_string(sql_string)
    /\ UNCHANGED <<sql_string, endpoint, requested, parseVars, retryVars,
                   clientVars, netVars,
                   restVars>>

TextNet == {Timeout, Ret(HttpResponse(200, NotJson)),
            Ret(HttpResponse(400, NotJson))}

RequestCall ==
    /\ requested = Pending
    /\ \E net \in TextNet :
         LET q == request(endpoint, sql_string, EmptyProps, net) IN
         /\ requested' = q.out
         /\ wire' = wire \o q.sent
         /\ answers' = answers \o Answered(q.sent, net)
    /\ UNCHANGED <<sql_string, endpoint, validated, parseVars, retryVars,
                   clientVars,
                   restVars>>

NextText == ValidateCall \/ RequestCall
SpecText == InitText /\ [][NextText]_vars

InitParse ==
    /\ r \in Responses /\ parsed = Pending
    /\ NoText /\ NoCall /\ cfg = Client(3, 0) /\ wire = <<>> /\ answers = <<>>
    /\ NoStream /\ prev = Pending

ParseCall ==
    /\ parsed = Pending
    /\ parsed' = parse_ksql_res(r)
    /\ UNCHANGED <<r, textVars, retryVars, clientVars, netVars,
                   restVars>>

NextParse == ParseCall
SpecParse == InitParse /\ [][NextParse]_vars

\* ------------------------------------------------------------ the client
Init ==
    /\ cfg \in {Client(n, d) : n \in CfgRetries, d \in CfgDelays}
    /\ NoText /\ NoParse /\ NoCall /\ wire = <<>> /\ answers = <<>>
    /\ NoStream /\ prev = Pending

\* create_stream / create_table: _create builds the statement, calls ksql
\* once and interprets the response
CallCreate ==
    /\ pc \in {"idle", "done"} /\ calls < MaxCalls
    /\ \E method \in {"create_stream", "create_table"},
          text \in BuiltTexts, net \in NetOutcomes :
         LET c == create(text, net) IN
         /\ api' = method /\ stmt' = text
         /\ result' = c.out /\ wire' = c.sent
         /\ answers' = Answered(c.sent, net)
    /\ calls' = calls + 1 /\ pc' = "done"
    /\ deco' = NoDeco /\ counter' = 0 /\ final_excep' = None
    /\ trace' = <<>> /\ sleeps' = 0 /\ waited' = 0
    /\ UNCHANGED <<cfg, textVars, parseVars,
                   restVars>>

\* entry of inner_wrapper, mutated: counter and final_excep live in the
\* decorator's closure and survive from one guarded call to the next
Enter_keeps_state(method, text, decoration) ==
    /\ pc \in {"idle", "done"} /\ calls < MaxCalls
    /\ api' = method /\ stmt' = text /\ deco' = decoration
    /\ calls' = calls + 1 /\ pc' = "for"
    /\ counter' = counter /\ final_excep' = final_excep
    /\ trace' = <<>> /\ sleeps' = 0 /\ waited' = 0
    /\ result' = Pending /\ wire' = <<>> /\ answers' = <<>>
    /\ UNCHANGED <<cfg, textVars, parseVars, streamVars>>

\* entry of inner_wrapper: final_excep = None, the loop starts
Enter(method, text, decoration) ==
    /\ pc \in {"idle", "done"} /\ calls < MaxCalls
    /\ api' = method /\ stmt' = text /\ deco' = decoration
    /\ calls' = calls + 1 /\ pc' = "for"
    /\ counter' = 0 /\ final_excep' = None
    /\ trace' = <<>> /\ sleeps' = 0 /\ waited' = 0
    /\ result' = Pending /\ wire' = <<>> /\ answers' = <<>>
    /\ UNCHANGED <<cfg, textVars, parseVars,
                   streamVars>>

\* create_stream_as: calls the decorated _create_as
CallCreateStreamAs ==
    \E text \in BuiltTexts :
        Enter("create_stream_as", text, CreateAsDecoration)
        /\ UNCHANGED prev

\* a call of an arbitrary operation decorated with retry(exceptions, delay,
\* max_retries)
CallGuarded ==
    \E e \in ExceptionSets, d \in Delays, n \in -1..MaxN :
        Enter("guarded", <<>>, Decoration(e, d, n))
        /\ UNCHANGED prev

\* for counter in range(max_retries)
ForNext ==
    /\ pc = "for"
    /\ pc' = IF in_range(counter, deco.max_retries)
             THEN IF counter > 0 THEN "sleep" ELSE "try"
             ELSE "after"
    /\ UNCHANGED <<deco, counter, final_excep, trace, sleeps, waited,
                   clientVars, textVars, parseVars, netVars,
                   restVars>>

\* if counter > 0: time.sleep(delay)
Sleep ==
    /\ pc = "sleep"
    /\ sleeps' = sleeps + 1 /\ waited' = waited + deco.delay
    /\ pc' = "try"
    /\ UNCHANGED <<deco, counter, final_excep, trace, clientVars, textVars,
                   parseVars, netVars,
                   restVars>>

\* one invocation of function inside the try statement, o its outcome
Try(o) ==
    /\ pc = "try"
    /\ LET t == inner_try(final_excep, o, deco.exceptions) IN
       /\ final_excep' = t.final_excep
       /\ result' = t.result
       /\ pc' = IF t.done THEN "done" ELSE "for"
       /\ counter' = IF t.done THEN counter ELSE counter + 1
    /\ trace' = Append(trace, o)
    /\ UNCHANGED <<deco, sleeps, waited, cfg, calls, api, stmt, textVars,
                   parseVars,
                   restVars>>

TryGuarded ==
    /\ api = "guarded"
    /\ \E o \in OpOutcomes : Try(o)
    /\ UNCHANGED netVars

TryCreateAs ==
    /\ api = "create_stream_as"
    /\ \E net \in NetOutcomes :
         LET c == create_as(stmt, net) IN
         /\ Try(c.out)
         /\ wire' = wire \o c.sent
         /\ answers' = answers \o Answered(c.sent, net)

\* the loop is over: raise final_excep, or fall off the end
AfterLoop ==
    /\ pc = "after"
    /\ result' = after_loop(final_excep)
    /\ pc' = "done"
    /\ UNCHANGED <<deco, counter, final_excep, trace, sleeps, waited, cfg,
                   calls, api, stmt, textVars, parseVars, netVars,
                   restVars>>

Next ==
    \/ CallCreate \/ CallCreateStreamAs \/ CallGuarded
    \/ ForNext \/ Sleep \/ TryGuarded \/ TryCreateAs \/ AfterLoop
Spec == Init /\ [][Next]_vars

\* ------------------------------------- one guarded function, called again
InitRetry ==
    /\ cfg = Client(3, 0)
    /\ NoText /\ NoParse /\ NoCall /\ wire = <<>> /\ answers = <<>>
    /\ NoStream /\ prev = Pending

\* the decorator is applied once: retry(exceptions, delay, max_retries)
\* wraps an arbitrary operation, and the guarded function is called
CallGuardedFirst ==
    /\ calls = 0
    /\ \E e \in ExceptionSets, d \in Delays, n \in -1..MaxN :
        Enter("guarded", <<>>, Decoration(e, d, n))
    /\ UNCHANGED prev

\* the same guarded function is called again after a call has ended
CallGuardedAgain ==
    /\ calls > 0 /\ pc = "done"
    /\ Enter("guarded", <<>>, deco)
    /\ prev' = result

NextRetry ==
    \/ CallGuardedFirst \/ CallGuardedAgain
    \/ ForNext \/ Sleep \/ TryGuarded \/ AfterLoop
SpecRetry == InitRetry /\ [][NextRetry]_vars

\* --------------------------------------- one call of BaseAPI on a text
InitCalls ==
    /\ sql_string \in CallTexts /\ endpoint = "ksql"
    /\ validated = Pending /\ requested = Pending
    /\ cfg = Client(3, 0)
    /\ NoParse /\ NoCall /\ wire = <<>> /\ answers = <<>>
    /\ NoStream /\ prev = Pending

\* _request(endpoint, sql_string=sql_string) called directly
CallRequest ==
    /\ api = "idle"
    /\ \E ep \in Endpoints, net \in TextNet :
         LET q == request(ep, sql_string, EmptyProps, net) IN
         /\ endpoint' = ep
         /\ requested' = q.out
         /\ wire' = wire \o q.sent
         /\ answers' = answers \o Answered(q.sent, net)
    /\ api' = "_request"
    /\ UNCHANGED <<sql_string, validated, parseVars, retryVars,
                   cfg, calls, stmt, result, restVars>>

\* ksql(sql_string)
CallKsql ==
    /\ api = "idle"
    /\ \E net \in NetOutcomes :
         LET k == ksql(sql_string, net) IN
         /\ result' = k.out
         /\ wire' = wire \o k.sent
         /\ answers' = answers \o Answered(k.sent, net)
    /\ api' = "ksql"
    /\ UNCHANGED <<textVars, parseVars, retryVars, cfg, calls, stmt,
                   restVars>>

\* what _create and _create_as do with the document ksql returned:
\* return self._parse_ksql_res(r, CreateError)
Interpret ==
    /\ api = "ksql" /\ IsRet(result) /\ parsed = Pending
    /\ r' = result.val
    /\ parsed' = parse_ksql_res(result.val)
    /\ UNCHANGED <<textVars, retryVars, clientVars, netVars, restVars>>

\* query(sql_string): the consumer gets a generator
CallQuery ==
    /\ api = "idle"
    /\ api' = "query"
    /\ gen' = query_call(sql_string)
    /\ UNCHANGED <<textVars, parseVars, retryVars, cfg, calls, stmt, result,
                   netVars, conn, resp, nread, rows, asked, prev>>

\* the consumer asks for the next row: next(generator)
Resume ==
    /\ gen \in {"created", "suspended"}
    /\ asked' = asked + 1
    /\ gen' = IF gen = "created" THEN "starting" ELSE "running"
    /\ UNCHANGED <<textVars, parseVars, retryVars, clientVars, netVars,
                   conn, resp, nread, rows, prev>>

\* the first statement of the generator body: r = self._request(...)
Open ==
    /\ gen = "starting"
    /\ \E net \in StreamNet :
         LET q == request("query", sql_string, EmptyProps, net)
             o == stream_open(q.out) IN
         /\ gen' = o.gen /\ result' = o.error
         /\ conn' = o.conn /\ resp' = o.resp
         /\ wire' = wire \o q.sent
         /\ answers' = answers \o Answered(q.sent, net)
    /\ UNCHANGED <<textVars, parseVars, retryVars, cfg, calls, api, stmt,
                   nread, rows, asked, prev>>

\* one turn of  for chunk in r.iter_content(chunk_size=chunk_size):  the
\* body ends (the generator returns and the exhausted body releases its
\* connection), or the next chunk is skipped, yielded as a row, or fails
ReadChunk ==
    /\ gen = "running"
    /\ IF nread = Len(resp.chunks)
       THEN /\ gen' = "finished" /\ conn' = "released"
            /\ UNCHANGED <<nread, rows, result>>
       ELSE LET d == decode_step(resp.chunks[nread + 1]) IN
            /\ nread' = nread + 1
            /\ gen' = CASE d.kind = "skip" -> "running"
                        [] d.kind = "row" -> "suspended"
                        [] d.kind = "fail" -> "failed"
            /\ rows' = IF d.kind = "row" THEN Append(rows, d.row) ELSE rows
            /\ result' = IF d.kind = "fail" THEN d.error ELSE result
            /\ UNCHANGED conn
    /\ UNCHANGED <<textVars, parseVars, retryVars, cfg, calls, api, stmt,
                   netVars, resp, asked, prev>>

\* the consumer stops iterating before the stream has ended
Abandon ==
    /\ gen \in {"created", "suspended"}
    /\ gen' = "abandoned"
    /\ UNCHANGED <<textVars, parseVars, retryVars, clientVars, netVars,
                   conn, resp, nread, rows, asked, prev>>

\* the interpreter may finalise a response nothing refers to any more; the
\* code of query itself never closes r
Collect ==
    /\ gen \in {"abandoned", "failed"} /\ conn = "open"
    /\ conn' = "closed"
    /\ UNCHANGED <<textVars, parseVars, retryVars, clientVars, netVars,
                   gen, resp, nread, rows, asked, prev>>

NextCalls ==
    \/ CallRequest \/ CallKsql \/ Interpret
    \/ CallQuery \/ Resume \/ Open \/ ReadChunk \/ Abandon \/ Collect
SpecCalls == InitCalls /\ [][NextCalls]_vars

\* ================================================================ claims
Last(t) == t[Len(t)]

\* C1: _validate_sql_string("") raises the invalid-statement error; a
\* non-empty text not ending in ';' comes back with one ';' appended; a
\* non-empty text ending in ';' comes back unchanged; every character of the
\* input keeps its place.
C1_ValidateContract ==
    validated # Pending =>
        /\ Len(sql_string) = 0 => validated = Err("InvalidQueryError", <<>>)
        /\ Len(sql_string) > 0 =>
             /\ IsRet(validated)
             /\ \A i \in 1..Len(sql_string) : validated.val[i] = sql_string[i]
             /\ Len(validated.val) =
                  IF Last(sql_string) = ";" THEN Len(sql_string)
                  ELSE Len(sql_string) + 1
             /\ Last(validated.val) = ";"

C1_Witness ==
    /\ sql_string = <<" ", ";", "a">>
    /\ validated = Ret(<<" ", ";", "a", ";">>)

\* number of ';' at the end of a text
RECURSIVE TrailingSemis(_)
TrailingSemis(t) ==
    IF Len(t) = 0 \/ Last(t) # ";" THEN 0
    ELSE 1 + TrailingSemis(SubSeq(t, 1, Len(t) - 1))

\* C2 as stated: every statement text sent by _request is non-empty and ends
\* with exactly one ';', whatever text the caller passed.
C2_ExactlyOneTerminator ==
    \A i \in 1..Len(wire) :
        LET t == wire[i].data.ksql IN
        /\ Len(t) > 0 /\ Last(t) = ";"
        /\ Len(t) > 1 => t[Len(t) - 1] # ";"

\* C2 amended: every statement text sent by _request is non-empty and ends
\* with ';'; it ends with exactly one ';' when the caller's text ends with at
\* most one, and a text that already ends with ';' is sent as it is.
C2_TerminatedNeverDuplicated ==
    \A i \in 1..Len(wire) :
        LET t == wire[i].data.ksql IN
        /\ Len(t) > 0 /\ Last(t) = ";"
        /\ TrailingSemis(sql_string) <= 1 => TrailingSemis(t) = 1
        /\ TrailingSemis(sql_string) >= 1 => t = sql_string

C2_Witness ==
    /\ sql_string = <<"a", ";">>
    /\ Len(wire) = 1 /\ wire[1].data.ksql = <<"a", ";">>
    /\ requested # Pending

\* the first entry has a command-status section carrying a status
HasCommandStatus(e) ==
    /\ "currentStatus" \in DOMAIN e
    /\ "commandStatus" \in DOMAIN e["currentStatus"]
    /\ "status" \in DOMAIN e["currentStatus"]["commandStatus"]
CommandStatus(e) == e["currentStatus"]["commandStatus"]

IsErrorEntry(e) ==
    /\ "error" \in DOMAIN e
    /\ "errorMessage" \in DOMAIN e["error"]
    /\ "message" \in DOMAIN e["error"]["errorMessage"]
    /\ \/ "currentStatus" \notin DOMAIN e
       \/ "commandStatus" \notin DOMAIN e["currentStatus"]

\* C4: for an error entry, whatever its message text, _parse_ksql_res raises
\* CreateError with the message "Message: " followed by that text.
C4_ErrorEntry ==
    (parsed # Pending /\ Len(r) > 0 /\ IsErrorEntry(r[1])) =>
        parsed = Err("CreateError",
                     <<"Message:">> \o r[1]["error"]["errorMessage"]["message"])

\* ---------------------------------------------------------- retry claims
InWrapper == api \in {"guarded", "create_stream_as"}
Retryable(o) == IsErr(o) /\ IsInstance(o.kind, deco.exceptions)
AllRetryable(t) == \A i \in 1..Len(t) : Retryable(t[i])

\* C5: with attempt bound N and k < N, an operation that raises a retryable
\* kind on its first k invocations and then returns v makes the guarded call
\* return v after exactly k+1 invocations; nothing is invoked after a return,
\* and the wrapper does not give up while attempts below N remain.
C5_SuccessAfterKFailures ==
    InWrapper =>
        /\ \A k \in 0..(deco.max_retries - 1) :
             (/\ Len(trace) = k + 1
              /\ AllRetryable(SubSeq(trace, 1, k))
              /\ IsRet(trace[k + 1]))
             => /\ pc = "done"
                /\ result = Ret(trace[k + 1].val)
        /\ \A i \in 1..Len(trace) : IsRet(trace[i]) => i = Len(trace)
        /\ (pc \in {"after", "done"} /\ AllRetryable(trace))
             => Len(trace) >= deco.max_retries

C5_Witness ==
    /\ api = "guarded" /\ deco.max_retries = 3 /\ pc = "done"
    /\ Len(trace) = 3 /\ AllRetryable(SubSeq(trace, 1, 2))
    /\ trace[3] = Ret([py |-> "v2"]) /\ result = Ret([py |-> "v2"])

\* C6: with attempt bound N >= 1, an operation that raises a retryable kind
\* on every invocation is invoked exactly N times and the guarded call then
\* raises the error of the N-th invocation, kind and message unchanged.
C6_ExhaustionRaisesLast ==
    (InWrapper /\ deco.max_retries >= 1) =>
        /\ Len(trace) <= deco.max_retries
        /\ (pc = "done" /\ Len(trace) > 0 /\ AllRetryable(trace)) =>
             /\ Len(trace) = deco.max_retries
             /\ result = trace[deco.max_retries]
        /\ pc = "done" => Len(trace) > 0

C6_Witness ==
    /\ api = "guarded" /\ deco.max_retries = 3 /\ pc = "done"
    /\ Len(trace) = 3 /\ AllRetryable(trace)
    /\ trace[1] # trace[3] /\ trace[2] # trace[3]
    /\ result = trace[3]

\* C7: for every attempt bound, 0 and negative included, the guarded call
\* returns normally only if some invocation of the operation returned
\* normally, and it returns that invocation's value; otherwise it raises.
C7_NeverSwallows ==
    (InWrapper /\ pc = "done") =>
        IF \E i \in 1..Len(trace) : IsRet(trace[i])
        THEN \E i \in 1..Len(trace) : result = trace[i] /\ IsRet(trace[i])
        ELSE IsErr(result)

\* the kinds _create_as can raise that its decorator does not name
Unretried == {"ValueError", "InvalidQueryError", "KeyError", "IndexError",
              "JSONDecodeError"}

\* C8: an error of a kind outside the retryable set ends the guarded call at
\* the attempt where it occurs: it is the last invocation, no sleep follows,
\* the error propagates unchanged; raised on the first invocation, the
\* operation is invoked once.  In _create_as the retryable kinds are Timeout
\* and CreateError, and a ValueError, an invalid-statement error or a
\* structural access failure propagates with no further submission.
C8_NonRetryablePropagates ==
    InWrapper =>
        /\ \A i \in 1..Len(trace) :
             (IsErr(trace[i]) /\ ~Retryable(trace[i])) =>
                 /\ i = Len(trace)
                 /\ pc = "done"
                 /\ result = trace[i]
                 /\ sleeps = i - 1
        /\ api = "create_stream_as" =>
             /\ deco.exceptions = {"Timeout", "CreateError"}
             /\ Len(wire) <= Len(trace)
             /\ \A i \in 1..Len(trace) :
                  (IsErr(trace[i]) /\ trace[i].kind \in Unretried) =>
                      /\ i = Len(trace) /\ pc = "done"
                      /\ result = trace[i]

C8_Witness ==
    /\ api = "create_stream_as" /\ pc = "done"
    /\ Len(trace) = 2 /\ trace[1] = Timeout
    /\ IsErr(trace[2]) /\ trace[2].kind = "ValueError"
    /\ result = trace[2]
    /\ Len(wire) = 2 /\ sleeps = 1

\* C9: create_stream / create_table / _create issue at most one outbound
\* request per call and never sleep; a Timeout or a CreateError of that one
\* attempt is the outcome of the call, whatever max_retries and delay the
\* client was constructed with.
C9_CreateNotRetried ==
    api \in {"create_stream", "create_table"} =>
        /\ pc = "done"
        /\ Len(wire) <= 1 /\ Len(answers) = Len(wire) /\ sleeps = 0
        /\ \A i \in 1..Len(answers) :
             /\ IsErr(answers[i]) => result = answers[i]
             /\ (/\ IsRet(answers[i])
                 /\ answers[i].val.status_code = 200
                 /\ answers[i].val.content.json
                 /\ IsErr(parse_ksql_res(answers[i].val.content.doc)))
                => result = parse_ksql_res(answers[i].val.content.doc)

C9_Witness ==
    /\ api = "create_stream" /\ cfg = Client(3, 2) /\ pc = "done"
    /\ Len(wire) = 1 /\ answers = <<Timeout>> /\ result = Timeout

\* C10: for a client constructed with max retry attempts N and retry delay d,
\* a create_stream_as call whose every submission times out or fails with
\* CreateError issues exactly N requests with a delay of d between attempts;
\* with N = 3 and d = 0, a timeout on attempt 1 and a success on attempt 2
\* give the success result after exactly 2 requests and no waiting.
C10_ConfiguredRetry ==
    (api = "create_stream_as" /\ pc = "done") =>
        /\ (Len(trace) > 0 /\ AllRetryable(trace)) =>
             /\ Len(wire) = cfg.max_retries
             /\ waited = cfg.delay * (Len(wire) - 1)
        /\ (/\ cfg = Client(3, 0) /\ Len(trace) = 2
            /\ trace[1] = Timeout /\ IsRet(trace[2]))
           => /\ result = Ret(True) /\ Len(wire) = 2 /\ waited = 0

\* ------------------------------------------------- retry claims, continued
\* C14: in every guarded call attempt 1 has no sleep before it, every later
\* attempt is preceded by exactly one sleep of the fixed delay, and no sleep
\* follows the last attempt or a success: when the call is over the number
\* of sleeps is the number of invocations minus one.
C14_SleepsBetweenAttempts ==
    InWrapper =>
        /\ waited = sleeps * deco.delay
        /\ pc = "try" => sleeps = Len(trace)
        /\ pc = "sleep" => (Len(trace) >= 1 /\ sleeps = Len(trace) - 1)
        /\ pc = "done" => sleeps = Len(trace) - 1

\* --------------------------------------------- interpreter claims, continued
\* C16: _parse_ksql_res has no success default: an empty response and a
\* first entry that is neither a command-status entry nor an error entry
\* raise a structural access failure; True is returned only for command
\* status "SUCCESS"; entries after the first do not matter.
C16_TwoWayClassification ==
    parsed # Pending =>
        /\ Len(r) = 0 => parsed = IndexError
        /\ (Len(r) > 0 /\ ~HasCommandStatus(r[1]) /\ ~IsErrorEntry(r[1])) =>
             (IsErr(parsed) /\ parsed.kind = "KeyError")
        /\ parsed = Ret(True) =>
             /\ Len(r) > 0 /\ HasCommandStatus(r[1])
             /\ CommandStatus(r[1])["status"] = <<"SUCCESS">>
        /\ IsRet(parsed) => parsed = Ret(True)
        /\ Len(r) > 0 => parsed = parse_ksql_res(<<r[1]>>)

C16_Witness ==
    /\ Len(r) = 2
    /\ r[1] = [error |-> [errorMessage |-> [status |-> <<"SUCCESS">>]]]
    /\ r[2] = CsEntry(<<"SUCCESS">>, <<"boom">>)
    /\ parsed = KeyError("message")

\* C15: the wrapper keeps nothing between guarded calls: whatever the
\* earlier calls did, a guarded call invokes the operation up to the full
\* max_retries times and raises only an error caught during that call.
Budget == IF deco.max_retries > 0 THEN deco.max_retries ELSE 0
C15_StatelessBetweenCalls ==
    InWrapper =>
        /\ Len(trace) <= Budget
        /\ pc = "for" => counter = Len(trace)
        /\ (pc = "done" /\ AllRetryable(trace)) => Len(trace) = Budget
        /\ (pc = "done" /\ IsErr(result)) =>
             \E i \in 1..Len(trace) : trace[i] = result
        /\ pc \in {"for", "sleep", "try"} => result = Pending

C15_Witness ==
    /\ calls = 2 /\ pc = "done" /\ deco.max_retries = 2
    /\ prev = Err("CreateError", <<"m1">>) /\ Retryable(prev)
    /\ Len(trace) = 2 /\ AllRetryable(trace)
    /\ result = Err("ReadTimeout", <<"m2">>) /\ result = trace[2]

\* ------------------------------------------------- buffered-call claims
\* C11: ksql(statement) returns the decoded JSON document when the status is
\* 200; for any other status it raises the transport error carrying the
\* status code and the raw body, returns no document, and the response
\* interpreter is never reached.
C11_StatusCheck ==
    (api = "ksql" /\ Len(answers) = 1 /\ IsRet(answers[1])) =>
        LET a == answers[1].val IN
        IF a.status_code = 200
        THEN a.content.json => result = Ret(a.content.doc)
        ELSE /\ IsErr(result) /\ result.kind = "ValueError"
             /\ result.msg = <<"Status Code:", ToString(a.status_code),
                               "Message:", a.content>>
             /\ parsed = Pending /\ r = <<>>

C11_Witness ==
    /\ api = "ksql" /\ sql_string = <<"a">>
    /\ answers = <<Ret(HttpResponse(400, Body(<<ErrEntry(<<"boom">>)>>)))>>
    /\ IsErr(result) /\ result.kind = "ValueError"
    /\ parsed = Pending

\* ------------------------------------------------------ streaming claims
Opened == api = "query" /\ conn # "none"
IsDocChunk(c) == c \in {Doc("a", "1"), Doc("a", "2")}
WellFramed(chunks) ==
    \A i \in 1..Len(chunks) : chunks[i] = Newline \/ IsDocChunk(chunks[i])

\* the documents of the non-newline chunks, in order
RECURSIVE ExpectedRows(_)
ExpectedRows(chunks) ==
    IF Len(chunks) = 0 THEN <<>>
    ELSE LET c == chunks[1]
             rest == ExpectedRows(SubSeq(chunks, 2, Len(chunks))) IN
         IF c = Newline THEN rest ELSE <<Row(c[2], c[4])>> \o rest

\* C12: when every chunk is a bare newline or one complete JSON document,
\* query yields exactly the documents of the non-newline chunks in arrival
\* order, one row per such chunk, none for a newline, and the stream ends
\* when the chunks end.
C12_RowsOfWellFramedBody ==
    (Opened /\ WellFramed(resp.chunks)) =>
        /\ rows = ExpectedRows(SubSeq(resp.chunks, 1, nread))
        /\ gen # "failed" /\ result = Pending
        /\ gen = "suspended" => IsDocChunk(resp.chunks[nread])
        /\ gen = "finished" <=> conn = "released"
        /\ gen = "finished" =>
             (nread = Len(resp.chunks) /\ rows = ExpectedRows(resp.chunks))

C12_Witness ==
    /\ Opened /\ gen = "finished"
    /\ resp.chunks = <<Newline, Doc("a", "1"), Newline, Doc("a", "2")>>
    /\ rows = <<Row("a", "1"), Row("a", "2")>>

StreamOver == gen \in {"finished", "failed", "abandoned"}

\* C13: once the stream is over (iteration ended normally, the consumer
\* stopped early, or a chunk failed to decode) the connection is not left
\* open.
C13_ConnectionReleased == (api = "query" /\ StreamOver) => conn # "open"

\* index of the first chunk that is neither a newline nor a document, or 0
FirstBad(chunks) ==
    LET bad == {i \in 1..Len(chunks) :
                   chunks[i] # Newline /\ ~IsDocChunk(chunks[i])} IN
    IF bad = {} THEN 0 ELSE CHOOSE i \in bad : \A j \in bad : i <= j

\* C17: chunks are parsed one by one and never joined: the stream fails with
\* a decode failure at the first chunk that is only part of a document,
\* after yielding the rows of all earlier chunks in order, and yields
\* nothing afterwards.
C17_NoReassembly ==
    (Opened /\ FirstBad(resp.chunks) > 0) =>
        LET b == FirstBad(resp.chunks) IN
        /\ nread <= b
        /\ nread = b <=> gen = "failed"
        /\ gen = "failed" =>
             /\ result.kind \in {"JSONDecodeError", "UnicodeDecodeError"}
             /\ rows = ExpectedRows(SubSeq(resp.chunks, 1, b - 1))
        /\ gen # "finished"

C17_Witness ==
    /\ Opened /\ gen = "failed"
    /\ resp.chunks = <<Doc("a", "2"), HeadPart("a"), TailPart("1"),
                       Doc("a", "1")>>
    /\ nread = 2 /\ rows = <<Row("a", "2")>>
    /\ result = Err("JSONDecodeError", <<"Expecting value">>)

\* C18: query does not look at the status code: a non-200 response raises no
\* transport error, its body goes through the chunk loop as a 200 body
\* does, and a failure comes only from decoding a chunk.
C18_NoStatusCheckInQuery ==
    (Opened /\ resp.status_code # 200) =>
        LET b == FirstBad(resp.chunks)
            good == IF gen = "failed" THEN nread - 1 ELSE nread IN
        /\ rows = ExpectedRows(SubSeq(resp.chunks, 1, good))
        /\ gen = "failed" =>
             /\ nread = b
             /\ result.kind \in {"JSONDecodeError", "UnicodeDecodeError"}
        /\ gen # "failed" => result = Pending
        /\ gen = "finished" => nread = Len(resp.chunks)

C18_Witness ==
    /\ Opened /\ resp.status_code = 400 /\ gen = "finished"
    /\ resp.chunks = <<Doc("a", "1"), Newline>>
    /\ rows = <<Row("a", "1")>> /\ result = Pending

\* C19: _request validates before it sends and sends once: with a non-empty
\* text one outbound call is made, with an empty text the invalid-statement
\* error is raised and none is made; no empty statement goes out through
\* _request, ksql, the interpreter path of the create calls, or query.
InvalidStatement == Err("InvalidQueryError", <<>>)
CallsMade == IF sql_string = <<>> THEN 0 ELSE 1
C19_ValidateThenSendOnce ==
    /\ \A i \in 1..Len(wire) : Len(wire[i].data.ksql) > 0
    /\ Len(answers) = Len(wire)
    /\ api = "_request" =>
         /\ Len(wire) = CallsMade
         /\ requested = IF sql_string = <<>> THEN InvalidStatement
                        ELSE answers[1]
    /\ api = "ksql" =>
         /\ Len(wire) = CallsMade
         /\ sql_string = <<>> => result = InvalidStatement
    /\ api = "query" =>
         /\ Len(wire) = IF gen \in {"created", "starting"} \/ asked = 0
                        THEN 0 ELSE CallsMade
         /\ (sql_string = <<>> /\ gen = "failed") => result = InvalidStatement

C19_Witness ==
    /\ api = "_request" /\ sql_string = <<>> /\ endpoint = "query"
    /\ requested = InvalidStatement /\ wire = <<>>

\* C20: query is lazy: the call validates nothing and sends nothing; both
\* happen when the consumer asks for the first row, so an empty statement
\* fails at the first next() and a generator never iterated opens no
\* connection; afterwards a chunk is read only while the consumer waits for
\* a row.
C20_Lazy ==
    /\ [](api = "query" =>
            /\ asked = 0 =>
                 /\ wire = <<>> /\ conn = "none" /\ result = Pending
                 /\ gen \in {"created", "abandoned"} /\ nread = 0
            /\ Len(rows) <= asked
            /\ gen = "suspended" => Len(rows) = asked
            /\ (sql_string = <<>> /\ asked > 0 /\ gen # "starting") =>
                 (gen = "failed" /\ result = InvalidStatement /\ asked = 1))
    /\ [][nread' # nread => (gen = "running" /\ asked = Len(rows) + 1)]_vars
    /\ [][wire' # wire => (api # "query" \/ (gen = "starting" /\ asked = 1))
         ]_vars

C20_Witness ==
    /\ Opened /\ gen = "suspended" /\ asked = 1
    /\ resp.chunks = <<Newline, Doc("a", "1"), Doc("a", "2"), Newline>>
    /\ nread = 2 /\ rows = <<Row("a", "1")>>
====
